---- MODULE Spec2Model ----
(***************************************************************************)
(* Backup manager of the Backup integration                                *)
(* (homeassistant/components/backup/manager.py).                           *)
(*                                                                         *)
(* One BackupManager instance is shared by the coroutines of a single      *)
(* asyncio event loop.  A coroutine runs without interruption from one     *)
(* await to the next, so every action below is one such segment of a       *)
(* handler.  Jobs handed to hass.async_add_executor_job run in a worker    *)
(* thread at some moment between the await and the resumption; they are    *)
(* actions of their own (the exec_* actions).                              *)
(***************************************************************************)
EXTENDS Naturals, Integers, Sequences, FiniteSets, TLC

\* ------------------------------------------------------------ bounds
\* Calls made on the manager in one behaviour.
MaxCalls == 2
\* Readings of the clock (dt_util.now) in one behaviour.
MaxClock == 2
\* Files in the backup directory a scan is run on.
MaxFiles == 2

\* Calls of a debounced callable in one behaviour.
MaxPuts == 3
\* The largest IID a Store read at start-up holds.
MaxStoredIid == 2

\* The coroutines calling into the manager, numbered in the order of their
\* first calls.
Tasks == {1, 2}

\* ------------------------------------------------------------ constants
\* homeassistant.const.__version__, the tail of a backup's name.
HAVERSION == 2025

\* Integrations discovered by async_process_integration_platforms, in the
\* order their platforms are handed to _add_platform.  The backup platform
\* of "gamma" has neither hook, that of "delta" has async_pre_backup only.
Discovered == <<"alpha", "beta", "gamma", "delta">>
HasPre(domain) == domain \in {"alpha", "beta", "delta"}
HasPost(domain) == domain \in {"alpha", "beta"}
\* hasattr(platform, "async_pre_backup") and hasattr(platform,
\* "async_post_backup").
HasHooks(domain) == HasPre(domain) /\ HasPost(domain)

VARIABLES
    backing_up,        \* BaseBackupManager.backing_up
    backups,           \* BaseBackupManager.backups: slug -> Backup
    loaded_platforms,  \* BaseBackupManager.loaded_platforms
    platforms,         \* BaseBackupManager.platforms: domains in insertion order
    loaded_backups,    \* BackupManager.loaded_backups
    files,             \* the backup directory: path -> archive on disk
    restore_file,      \* RESTORE_BACKUP_FILE: <<>> or <<the "path" it holds>>
    restarts,          \* calls of the homeassistant.restart service, per task
    now,               \* dt_util.now()
    calls,             \* per task: the calls it has made
    op,                \* per task: the manager method it runs (or ran last)
    arg,               \* per task: the slug it was called with
    pc,                \* per task: the await it is suspended at, or "idle"
    res,               \* per task: how its last call ended
    job,               \* per task: the executor job it awaits and its result
    loc,               \* per task: locals of async_create_backup
    pre,               \* per task: its async_pre_backup coroutines, per domain
    post               \* per task: its async_post_backup coroutines, per domain

\* One Debounce instance of the Group integration
\* (homeassistant/components/group/debounce.py), the callable it wrapped,
\* and the coroutines of its event loop.
VARIABLES
    _is_closing,       \* Debounce._is_closing
    _queue,            \* Debounce._queue: the arguments of the calls waiting
    _task,             \* Debounce._task: NoTask or a task of `tasks`
    tasks,             \* the asyncio tasks created for _process_queue
    closers,           \* per caller of close(): where it is, the task it awaits
    close_returned,    \* some call of close() has returned
    invocations,       \* the arguments the wrapped function was invoked with
    puts               \* calls of the debounced callable so far

\* One AccessoryIIDStorage instance of the HomeKit integration
\* (homeassistant/components/homekit/iidmanager.py) and its Store.
VARIABLES
    allocations,       \* AccessoryIIDStorage.allocations: aid -> key -> iid
    allocated_iids,    \* AccessoryIIDStorage.allocated_iids: aid -> iids
    stored,            \* what the Store holds on disk
    save_scheduled,    \* a delayed save of the Store is pending
    iid_call           \* the last call of get_or_allocate_iid and its result

manager_vars ==
    <<backing_up, backups, loaded_platforms, platforms, loaded_backups,
      files, restore_file, restarts, now, calls, op, arg, pc, res, job,
      loc, pre, post>>
debounce_vars ==
    <<_is_closing, _queue, _task, tasks, closers, close_returned,
      invocations, puts>>
iid_vars == <<allocations, allocated_iids, stored, save_scheduled, iid_call>>

vars == <<manager_vars, debounce_vars, iid_vars>>

\* ------------------------------------------------------------ values
Range(f) == {f[x] : x \in DOMAIN f}
Set(f, t, v) == [f EXCEPT ![t] = v]
Put(m, k, v) == [x \in DOMAIN m \cup {k} |-> IF x = k THEN v ELSE m[x]]
Pop(m, k) == [x \in DOMAIN m \ {k} |-> m[x]]
EmptyMap == [x \in {} |-> 0]

\* A name is its leading words and its tail: f"Full Backup {HAVERSION}".
FullName == <<"Full Backup", HAVERSION>>
IncrementalName == <<"Incremental Backup", HAVERSION>>
\* The name the stock backup integration gives its archives.
CoreName == <<"Core", HAVERSION>>
startswith(name, prefix) == name[1] = prefix

\* str.lower on the leading words of a name.
lower(s) ==
    CASE s \in {"Full Backup", "FULL BACKUP"} -> "full backup"
      [] s \in {"Incremental Backup", "INCREMENTAL BACKUP"} ->
           "incremental backup"
      [] s \in {"Core", "CORE"} -> "core"
      [] OTHER -> s

\* The first 8 hex digits of a SHA-1 digest, as a number: injective on the
\* strings the model forms, which differ when their letters differ in case.
sha1_8(date, words) ==
    date * 10 + (CASE words = "full backup" -> 1
                   [] words = "incremental backup" -> 2
                   [] words = "core" -> 3
                   [] words = "Full Backup" -> 4
                   [] words = "Incremental Backup" -> 5
                   [] words = "Core" -> 6
                   [] words = "FULL BACKUP" -> 7
                   [] words = "INCREMENTAL BACKUP" -> 8
                   [] words = "CORE" -> 9
                   [] OTHER -> 0)

\* Mutant of _generate_slug: the string is hashed as it is.
_generate_slug_case_sensitive(date, name) == sha1_8(date, name[1])

_generate_slug(date, name) == sha1_8(date, lower(name[1]))

\* Path(self.backup_dir, f"{slug}.tar") and Path.stem.
TarPath(slug) == <<"backups", slug>>
stem(path) == path[2]

\* The Backup dataclass (size, derived from the file, is left out).
Backup(slug, name, date, path) ==
    [slug |-> slug, name |-> name, date |-> date, path |-> path]

\* An archive file: how tarfile.open(path, "r:") takes it ("tar" opens,
\* "gz" and "nottar" raise TarError, "oserror" raises OSError), the name of
\* its metadata member ("" when it has none, with a trailing "/" when the
\* member is a directory), whether that member is well-formed JSON, the keys
\* the JSON object holds and their values.
Archive(mode, member, json, keys, slug, name, date, type) ==
    [mode |-> mode, member |-> member, json |-> json, keys |-> keys,
     slug |-> slug, name |-> name, date |-> date, backup_type |-> type]

RequiredKeys == {"slug", "name", "date"}

\* An exception: its class, its message, the slug and the hook domain the
\* message names, __cause__ and __context__.
Exc(type, msg, slug, domain) ==
    [type |-> type, msg |-> msg, slug |-> slug, domain |-> domain,
     cause |-> <<>>, context |-> <<>>]
NoSlug == 0 - 1
AlreadyInProgress ==
    Exc("HomeAssistantError", "Backup already in progress", NoSlug, "")
NotFound(slug) == Exc("HomeAssistantError", "Backup {slug} not found", slug, "")
\* What a platform's hook raises: phase is "pre" or "post".
HookError(phase, domain) == Exc("HookError", phase, NoSlug, domain)
WriteError == Exc("OSError", "archive", NoSlug, "")
RestoreFileError == Exc("OSError", "restore file", NoSlug, "")
\* What escapes _read_backups.
ScanError == Exc("Exception", "read backups", NoSlug, "")
ServiceError == Exc("ServiceNotFound", "homeassistant.restart", NoSlug, "")
KeyErr(slug) == Exc("KeyError", "{slug}", slug, "")

\* How a call ended.
NoRes == [st |-> "none", val |-> <<>>, err |-> <<>>]
ReturnNone == [st |-> "ret", val |-> <<>>, err |-> <<>>]
Return(v) == [st |-> "ret", val |-> <<v>>, err |-> <<>>]
Raise(e) == [st |-> "raise", val |-> <<>>, err |-> <<e>>]

\* An executor job: whether the worker thread has run it, whether it
\* raised, and what it returned.
NoJob == [ran |-> FALSE, ok |-> TRUE, out |-> EmptyMap]
Ran(ok, out) == [ran |-> TRUE, ok |-> ok, out |-> out]

\* Locals of a call that live across an await.
NoLoc == [backup |-> <<>>, exc |-> <<>>, writer |-> "none"]

NoHooks == [d \in Range(Discovered) |-> "none"]

\* ------------------------------------------------------------ the directory
\* The backup directory when the manager is constructed: one archive, written
\* by the stock integration.
CoreSlug == _generate_slug(0, CoreName)
CoreArchive ==
    Archive("tar", "./backup.json", TRUE, RequiredKeys, CoreSlug, CoreName, 0,
            "none")
InitialDirectory == Put(EmptyMap, TarPath(CoreSlug), CoreArchive)

\* A slug no archive has.
UnknownSlug == sha1_8(0, "non_existing")

\* _read_backups, one file: the exception the body of the try block raises,
\* "none" when it raises nothing.  tarfile.open raises OSError or TarError,
\* extractfile KeyError for a member that is not there, json_loads_object
\* JSONDecodeError, data["slug"], data["name"] or data["date"] KeyError.
FileError(a) ==
    CASE a.mode = "oserror" -> "OSError"
      [] a.mode \in {"gz", "nottar"} -> "TarError"
      [] a.member \notin {"./backup.json", "./backup.json/"} -> "KeyError"
      [] a.member = "./backup.json/" -> "none"
      [] ~a.json -> "JSONDecodeError"
      [] ~(RequiredKeys \subseteq a.keys) -> "KeyError"
      [] OTHER -> "none"

\* Mutant of Caught: the except clause without KeyError.
Caught_without_KeyError == {"OSError", "TarError", "JSONDecodeError"}

\* The except clause of _read_backups.
Caught == {"OSError", "TarError", "JSONDecodeError", "KeyError"}

\* _read_backups, one file: TRUE when the body of the try block reaches
\* backups[backup.slug] = backup; extractfile returns None for a member that
\* is not a regular file, and the file is passed over.
Readable(a) == FileError(a) = "none" /\ a.member = "./backup.json"

\* _read_backups raises when a file raises an exception that is not caught.
ScanRaises(fs) ==
    \E p \in DOMAIN fs : FileError(fs[p]) \notin Caught \cup {"none"}

\* _read_backups: the dicts the scan of directory fs can return.  Two files
\* with the same slug in their metadata: the one globbed last stays, and the
\* order of glob is not specified.
_read_backups(fs) ==
    LET good == {p \in DOMAIN fs : Readable(fs[p])}
        slugs == {fs[p].slug : p \in good}
        picks == {f \in [slugs -> good] : \A s \in slugs : fs[f[s]].slug = s}
    IN  { [s \in slugs |->
             Backup(fs[f[s]].slug, fs[f[s]].name, fs[f[s]].date, f[s])]
          : f \in picks }

\* Mutant of _get_backup: the file of a tracked record is not checked.
_get_backup_unchecked(bk, fs, slug) ==
    IF slug \notin DOMAIN bk
    THEN [found |-> FALSE, backups |-> bk]
    ELSE [found |-> TRUE, backups |-> bk]

\* async_get_backup after the load: the lookup, the check of the file and
\* the eviction.  found: a Backup is returned; backups: the map afterwards.
_get_backup(bk, fs, slug) ==
    IF slug \notin DOMAIN bk
    THEN [found |-> FALSE, backups |-> bk]
    ELSE IF bk[slug].path \notin DOMAIN fs
         THEN [found |-> FALSE, backups |-> Pop(bk, slug)]
         ELSE [found |-> TRUE, backups |-> bk]

\* The slugs a caller may pass.
KnownSlugs ==
    DOMAIN backups \cup {files[p].slug : p \in DOMAIN files} \cup {UnknownSlug}

\* ------------------------------------------------------------ debounce
\* The coroutines that call close() of the debounced callable.
Closers == {1, 2}

\* Debounce._task before the first call.
NoTask == 0
\* A task as asyncio.create_task returns it: scheduled, not yet started.
\* `at` is the await the task is suspended at; must_cancel is set by
\* Task.cancel() and makes the task's next step raise CancelledError at
\* that await.
NewTask == [at |-> "start", must_cancel |-> FALSE]
\* Task.done()
done(i) == tasks[i].at = "done"
\* Task.cancel(): no effect on a task that is done.
cancel(ts, i) ==
    IF ts[i].at = "done" THEN ts ELSE [ts EXCEPT ![i].must_cancel = TRUE]

\* Debounce.__init__, and the decorator applied to one function.
Debounce__init__ ==
    /\ _is_closing = FALSE
    /\ _queue = <<>>
    /\ _task = NoTask
    /\ tasks = <<>>
    /\ closers = [c \in Closers |-> [pc |-> "idle", task |-> NoTask]]
    /\ close_returned = FALSE
    /\ invocations = <<>>
    /\ puts = 0

\* debounced_wrapper(*args): the queue is unbounded, so put() never
\* suspends and the whole call is one segment.  The call's arguments are
\* its number.
debounced_wrapper ==
    /\ puts < MaxPuts
    /\ puts' = puts + 1
    /\ IF _is_closing
       THEN UNCHANGED <<_queue, _task, tasks>>
       ELSE /\ _queue' = Append(_queue, puts + 1)
            /\ IF _task = NoTask \/ done(_task)
               THEN /\ tasks' = Append(tasks, NewTask)
                    /\ _task' = Len(tasks) + 1
               ELSE UNCHANGED <<_task, tasks>>
    /\ UNCHANGED <<_is_closing, closers, close_returned, invocations>>
    /\ UNCHANGED <<manager_vars, iid_vars>>

\* close(), called by a coroutine other than the processing task, up to
\* its await: awaiting a task that is done does not suspend.
close(c) ==
    /\ closers[c].pc = "idle"
    /\ _is_closing' = TRUE
    /\ IF _task # NoTask
       THEN /\ tasks' = cancel(tasks, _task)
            /\ IF done(_task)
               THEN /\ closers' = Set(closers, c,
                                      [pc |-> "returned", task |-> _task])
                    /\ close_returned' = TRUE
               ELSE /\ closers' = Set(closers, c,
                                      [pc |-> "await", task |-> _task])
                    /\ UNCHANGED close_returned
       ELSE /\ closers' = Set(closers, c,
                              [pc |-> "returned", task |-> NoTask])
            /\ close_returned' = TRUE
            /\ UNCHANGED tasks
    /\ UNCHANGED <<_queue, _task, invocations, puts>>
    /\ UNCHANGED <<manager_vars, iid_vars>>

\* close() resumed: the task it awaited has ended, the CancelledError the
\* await raises, if any, is suppressed.
close_resume(c) ==
    /\ closers[c].pc = "await"
    /\ done(closers[c].task)
    /\ closers' = Set(closers, c, [closers[c] EXCEPT !.pc = "returned"])
    /\ close_returned' = TRUE
    /\ UNCHANGED <<_is_closing, _queue, _task, tasks, invocations, puts>>
    /\ UNCHANGED <<manager_vars, iid_vars>>

\* _process_queue at the head of its loop, in task i, the tasks being ts:
\* the task ends on an empty queue, else it takes the first entry and
\* invokes the wrapped function, which runs up to its first await.
_process_queue(i, ts) ==
    IF _queue = <<>>
    THEN /\ tasks' = [ts EXCEPT ![i].at = "done"]
         /\ UNCHANGED <<_queue, invocations>>
    ELSE /\ tasks' = [ts EXCEPT ![i].at = "func"]
         /\ _queue' = Tail(_queue)
         /\ invocations' = Append(invocations, Head(_queue))

\* The first step of a task: a task cancelled before it started never runs
\* _process_queue.
task_start(i) ==
    /\ tasks[i].at = "start"
    /\ IF tasks[i].must_cancel
       THEN /\ tasks' = [tasks EXCEPT ![i] = [at |-> "done",
                                               must_cancel |-> FALSE]]
            /\ UNCHANGED <<_queue, invocations>>
       ELSE _process_queue(i, tasks)
    /\ UNCHANGED <<_is_closing, _task, closers, close_returned, puts>>
    /\ UNCHANGED <<manager_vars, iid_vars>>

\* The wrapped function returns, or raises an Exception that is
\* suppressed; the task goes on to asyncio.sleep(self._delay).
func_return(i) ==
    /\ tasks[i].at = "func"
    /\ ~tasks[i].must_cancel
    /\ tasks' = [tasks EXCEPT ![i].at = "sleep"]
    /\ UNCHANGED <<_is_closing, _queue, _task, closers, close_returned,
                   invocations, puts>>
    /\ UNCHANGED <<manager_vars, iid_vars>>

\* The wrapped function is resumed with the CancelledError of a cancel():
\* it lets the error out, which suppress(Exception) does not hold back and
\* which ends the task, or it catches the error and goes on.
func_cancelled(i, caught) ==
    /\ tasks[i].at = "func"
    /\ tasks[i].must_cancel
    /\ tasks' = [tasks EXCEPT ![i] = [at |-> IF caught THEN "func" ELSE "done",
                                      must_cancel |-> FALSE]]
    /\ UNCHANGED <<_is_closing, _queue, _task, closers, close_returned,
                   invocations, puts>>
    /\ UNCHANGED <<manager_vars, iid_vars>>

\* The wrapped function awaits close() of its own debounced callable:
\* close() cancels the task it runs in and awaits it.  A task that awaits
\* itself is resumed with an error, which the pending cancellation turns
\* into CancelledError; close() suppresses it and returns to the function.
func_close(i) ==
    /\ tasks[i].at = "func"
    /\ ~tasks[i].must_cancel
    /\ _task = i
    /\ _is_closing' = TRUE
    /\ close_returned' = TRUE
    /\ UNCHANGED <<_queue, _task, tasks, closers, invocations, puts>>
    /\ UNCHANGED <<manager_vars, iid_vars>>

\* asyncio.sleep(self._delay) ends: by the CancelledError of a cancel(),
\* which ends the task, or by the delay, which takes the task to the head
\* of the loop.
sleep_end(i) ==
    /\ tasks[i].at = "sleep"
    /\ IF tasks[i].must_cancel
       THEN /\ tasks' = [tasks EXCEPT ![i] = [at |-> "done",
                                               must_cancel |-> FALSE]]
            /\ UNCHANGED <<_queue, invocations>>
       ELSE _process_queue(i, tasks)
    /\ UNCHANGED <<_is_closing, _task, closers, close_returned, puts>>
    /\ UNCHANGED <<manager_vars, iid_vars>>

\* ------------------------------------------------------------ iid storage
\* The accessories of the bridge.
Aids == {1, 2}
None == "None"
ACCESSORY_INFORMATION_SERVICE == "3E"
\* The services and characteristics of an accessory, by UUID.
AccessoryInformation == "0000003E-0000-1000-8000-0026BB765291"
Lightbulb == "00000043-0000-1000-8000-0026BB765291"
Name == "00000023-0000-1000-8000-0026BB765291"
ServiceUuids == {AccessoryInformation, Lightbulb}
CharUuids == {None, Name}
\* The services and characteristics are given no unique id.
UniqueIds == {None}

\* pyhap.util.uuid_to_hap_type: the short form of a UUID of the HAP base.
uuid_to_hap_type(uuid) ==
    CASE uuid = AccessoryInformation -> "3E"
      [] uuid = Lightbulb -> "43"
      [] uuid = Name -> "23"

\* x or ''
OrEmpty(x) == IF x \in {None, ""} THEN "" ELSE x

_generate_allocation_key(service_uuid, service_unique_id, char_uuid, char_unique_id) ==
    LET service_hap_type == uuid_to_hap_type(service_uuid)
        char_hap_type ==
            IF char_uuid # None THEN uuid_to_hap_type(char_uuid) ELSE ""
    IN  service_hap_type \o "_" \o OrEmpty(service_unique_id) \o "_"
            \o char_hap_type \o "_" \o OrEmpty(char_unique_id)

_is_main_service_without_characteristic(service_uuid, char_uuid) ==
    /\ uuid_to_hap_type(service_uuid) = ACCESSORY_INFORMATION_SERVICE
    /\ char_uuid = None

\* The allocation keys of the calls made on the storage.
AllocationKeys ==
    {_generate_allocation_key(s, su, c, cu) :
        s \in ServiceUuids, su \in UniqueIds, c \in CharUuids,
        cu \in UniqueIds}
\* The key of the accessory-information service without a characteristic.
MainKey == _generate_allocation_key(AccessoryInformation, None, None, None)

\* The allocations of one accessory as an earlier run saved them: the IIDs
\* _allocate_new_iid gave out, each once and none of them 1, and the 1 the
\* migration from version 1 writes for the accessory-information service.
StoredAccessories ==
    {m \in UNION {[K -> 1..MaxStoredIid] : K \in SUBSET AllocationKeys} :
        /\ \A k1, k2 \in DOMAIN m : k1 # k2 => m[k1] # m[k2]
        /\ \A k \in DOMAIN m : m[k] = 1 <=> k = MainKey}

\* What Store.async_load returns: nothing (None, or an empty dict), or the
\* data of an earlier save.
NoStorage == EmptyMap
StoredData ==
    {NoStorage} \cup
    {[allocations |-> a] :
        a \in UNION {[A -> StoredAccessories] :
                        A \in SUBSET {ToString(aid) : aid \in Aids}}}

\* sorted(values), for values that differ.
RECURSIVE sorted(_)
sorted(values) ==
    IF values = {} THEN <<>>
    ELSE LET least == CHOOSE v \in values : \A w \in values : v <= w
         IN  <<least>> \o sorted(values \ {least})

\* _data_to_save
_data_to_save == [allocations |-> allocations]

\* AccessoryIIDStorage.__init__ followed by async_initialize, the Store
\* returning raw_storage.
async_initialize(raw_storage) ==
    /\ stored = raw_storage
    /\ allocations =
           IF DOMAIN raw_storage = {} THEN EmptyMap
           ELSE raw_storage.allocations
    /\ allocated_iids =
           IF DOMAIN raw_storage = {} THEN EmptyMap
           ELSE [aid_str \in DOMAIN raw_storage.allocations |->
                    sorted(Range(raw_storage.allocations[aid_str]))]
    /\ save_scheduled = FALSE
    /\ iid_call = [aid |-> None, key |-> None, iid |-> 0]

\* Mutant of _allocate_new_iid: the next IID is counted, not read off the
\* last one.
_allocate_new_iid_by_count(iids) ==
    Len(iids) + 1

_allocate_new_iid(iids) ==
    IF iids # <<>> THEN iids[Len(iids)] + 1 ELSE 2

\* get_or_allocate_iid, with the save it schedules.
get_or_allocate_iid(aid, service_uuid, service_unique_id, char_uuid, char_unique_id) ==
    LET allocation_key ==
            _generate_allocation_key(service_uuid, service_unique_id,
                                     char_uuid, char_unique_id)
        aid_str == ToString(aid)
        Returns(iid) ==
            iid_call' = [aid |-> aid_str, key |-> allocation_key, iid |-> iid]
    IN
    /\ IF _is_main_service_without_characteristic(service_uuid, char_uuid)
       THEN /\ Returns(1)
            /\ UNCHANGED <<allocations, allocated_iids, save_scheduled>>
       ELSE LET accessory_allocations ==
                    IF aid_str \in DOMAIN allocations
                    THEN allocations[aid_str] ELSE EmptyMap
                iids ==
                    IF aid_str \in DOMAIN allocated_iids
                    THEN allocated_iids[aid_str] ELSE <<1>>
            IN  IF allocation_key \in DOMAIN accessory_allocations
                THEN /\ allocations' =
                            Put(allocations, aid_str, accessory_allocations)
                     /\ allocated_iids' = Put(allocated_iids, aid_str, iids)
                     /\ Returns(accessory_allocations[allocation_key])
                     /\ UNCHANGED save_scheduled
                ELSE LET allocated_iid == _allocate_new_iid(iids) IN
                     /\ allocations' =
                            Put(allocations, aid_str,
                                Put(accessory_allocations, allocation_key,
                                    allocated_iid))
                     /\ allocated_iids' =
                            Put(allocated_iids, aid_str,
                                Append(iids, allocated_iid))
                     /\ save_scheduled' = TRUE
                     /\ Returns(allocated_iid)
    /\ UNCHANGED stored
    /\ UNCHANGED <<manager_vars, debounce_vars>>

\* The save scheduled by _async_schedule_save, IID_MANAGER_SAVE_DELAY
\* seconds after the last allocation.
delayed_save ==
    /\ save_scheduled
    /\ stored' = _data_to_save
    /\ save_scheduled' = FALSE
    /\ UNCHANGED <<allocations, allocated_iids, iid_call>>
    /\ UNCHANGED <<manager_vars, debounce_vars>>

\* ------------------------------------------------------------ Init
\* BackupManager.__init__
ManagerConstructed ==
    /\ backing_up = FALSE
    /\ backups = EmptyMap
    /\ loaded_platforms = FALSE
    /\ platforms = <<>>
    /\ loaded_backups = FALSE
    /\ files = InitialDirectory
    /\ restore_file = <<>>
    /\ restarts = [t \in Tasks |-> 0]
    /\ now = 1
    /\ calls = [t \in Tasks |-> 0]
    /\ op = [t \in Tasks |-> "none"]
    /\ arg = [t \in Tasks |-> NoSlug]
    /\ pc = [t \in Tasks |-> "idle"]
    /\ res = [t \in Tasks |-> NoRes]
    /\ job = [t \in Tasks |-> NoJob]
    /\ loc = [t \in Tasks |-> NoLoc]
    /\ pre = [t \in Tasks |-> NoHooks]
    /\ post = [t \in Tasks |-> NoHooks]

Init ==
    /\ ManagerConstructed
    /\ Debounce__init__
    /\ async_initialize(NoStorage)

\* ------------------------------------------------------------ calls
\* The calls made so far.
RECURSIVE Total(_, _)
Total(f, S) ==
    IF S = {} THEN 0
    ELSE LET x == CHOOSE x \in S : TRUE IN f[x] + Total(f, S \ {x})

\* Task t, idle, calls method o with slug s.
Call(t, o, s) ==
    /\ pc[t] = "idle"
    /\ \A u \in Tasks : u < t => calls[u] > 0
    /\ Total(calls, Tasks) < MaxCalls
    /\ calls' = Set(calls, t, calls[t] + 1)
    /\ op' = Set(op, t, o)
    /\ arg' = Set(arg, t, s)
    /\ restarts' = Set(restarts, t, 0)

\* The call of task t ends with r: its locals and its coroutines are gone.
Finish(t, r) ==
    /\ pc' = Set(pc, t, "idle")
    /\ res' = Set(res, t, r)
    /\ job' = Set(job, t, NoJob)
    /\ loc' = Set(loc, t, NoLoc)
    /\ pre' = Set(pre, t, NoHooks)
    /\ post' = Set(post, t, NoHooks)

\* Task t suspends at await w with locals l, pre-backup coroutines hp and
\* post-backup coroutines hq; an executor job it awaits has not run yet.
Suspend(t, w, l, hp, hq) ==
    /\ pc' = Set(pc, t, w)
    /\ res' = Set(res, t, NoRes)
    /\ job' = Set(job, t, NoJob)
    /\ loc' = Set(loc, t, l)
    /\ pre' = Set(pre, t, hp)
    /\ post' = Set(post, t, hq)

Found(b) == [NoLoc EXCEPT !.backup = <<b>>]

\* ------------------------------------------------------------ record store
\* Mutant of AfterLoad: async_remove_backup pops the slug without looking at
\* what the lookup returned, so a slug that is not tracked raises KeyError.
AfterLoad_remove_unguarded(t, o, s, bk) ==
    LET g == _get_backup(bk, files, s) IN
    CASE o = "load_backups" ->
           /\ backups' = bk
           /\ Finish(t, ReturnNone)
      [] o = "get_backups" ->
           /\ backups' = bk
           /\ Finish(t, Return(bk))
      [] o = "get_backup" ->
           /\ backups' = g.backups
           /\ Finish(t, IF g.found THEN Return(bk[s]) ELSE ReturnNone)
      [] o = "remove_backup" ->
           /\ backups' = g.backups
           /\ IF g.found
              THEN Suspend(t, "unlink", Found(bk[s]), NoHooks, NoHooks)
              ELSE Finish(t, Raise(KeyErr(s)))
      [] o = "restore_backup" ->
           /\ backups' = g.backups
           /\ IF g.found
              THEN Suspend(t, "write_restore_file", Found(bk[s]), NoHooks,
                           NoHooks)
              ELSE Finish(t, Raise(NotFound(s)))

\* What a record-store method o of task t, called with slug s, does from the
\* point where the store is loaded (bk: self.backups at that point) to its
\* next await or its end.
AfterLoad(t, o, s, bk) ==
    LET g == _get_backup(bk, files, s) IN
    CASE o = "load_backups" ->
           /\ backups' = bk
           /\ Finish(t, ReturnNone)
      [] o = "get_backups" ->
           /\ backups' = bk
           /\ Finish(t, Return(bk))
      [] o = "get_backup" ->
           /\ backups' = g.backups
           /\ Finish(t, IF g.found THEN Return(bk[s]) ELSE ReturnNone)
      [] o = "remove_backup" ->
           /\ backups' = g.backups
           /\ IF g.found
              THEN Suspend(t, "unlink", Found(bk[s]), NoHooks, NoHooks)
              ELSE Finish(t, ReturnNone)
      [] o = "restore_backup" ->
           /\ backups' = g.backups
           /\ IF g.found
              THEN Suspend(t, "write_restore_file", Found(bk[s]), NoHooks,
                           NoHooks)
              ELSE Finish(t, Raise(NotFound(s)))

\* A call of load_backups, async_get_backups, async_get_backup,
\* async_remove_backup or async_restore_backup, up to its first await.
StoreCall(t, o, s) ==
    /\ Call(t, o, s)
    /\ IF o = "load_backups" \/ ~loaded_backups
       THEN /\ Suspend(t, "load_backups", NoLoc, NoHooks, NoHooks)
            /\ UNCHANGED backups
       ELSE AfterLoad(t, o, s, backups)
    /\ UNCHANGED <<backing_up, loaded_platforms, platforms, loaded_backups,
                   files, restore_file, now>>

load_backups(t) == StoreCall(t, "load_backups", NoSlug)
async_get_backups(t) == StoreCall(t, "get_backups", NoSlug)
async_get_backup(t, s) == StoreCall(t, "get_backup", s)
async_remove_backup(t, s) == StoreCall(t, "remove_backup", s)
async_restore_backup(t, s) == StoreCall(t, "restore_backup", s)

\* The worker thread runs _read_backups for task t.
exec_read_backups(t) ==
    /\ pc[t] = "load_backups"
    /\ ~job[t].ran
    /\ IF ScanRaises(files)
       THEN job' = Set(job, t, Ran(FALSE, EmptyMap))
       ELSE \E out \in _read_backups(files) :
              job' = Set(job, t, Ran(TRUE, out))
    /\ UNCHANGED <<backing_up, backups, loaded_platforms, platforms,
                   loaded_backups, files, restore_file, restarts, now, calls,
                   op, arg, pc, res, loc, pre, post>>

\* load_backups resumes with the result of the scan, and the method that
\* awaited it goes on; an exception of the scan propagates to the caller.
load_backups_resume(t) ==
    /\ pc[t] = "load_backups"
    /\ job[t].ran
    /\ IF job[t].ok
       THEN /\ loaded_backups' = TRUE
            /\ AfterLoad(t, op[t], arg[t], job[t].out)
       ELSE /\ UNCHANGED <<loaded_backups, backups>>
            /\ Finish(t, Raise(ScanError))
    /\ UNCHANGED <<backing_up, loaded_platforms, platforms, files,
                   restore_file, restarts, now, calls, op, arg>>

\* The worker thread runs backup.path.unlink(missing_ok=True).
exec_unlink(t) ==
    /\ pc[t] = "unlink"
    /\ ~job[t].ran
    /\ files' = Pop(files, loc[t].backup[1].path)
    /\ job' = Set(job, t, Ran(TRUE, EmptyMap))
    /\ UNCHANGED <<backing_up, backups, loaded_platforms, platforms,
                   loaded_backups, restore_file, restarts, now, calls, op,
                   arg, pc, res, loc, pre, post>>

\* async_remove_backup after the unlink: self.backups.pop(slug).
remove_backup_resume(t) ==
    /\ pc[t] = "unlink"
    /\ job[t].ran
    /\ IF arg[t] \in DOMAIN backups
       THEN /\ backups' = Pop(backups, arg[t])
            /\ Finish(t, ReturnNone)
       ELSE /\ UNCHANGED backups
            /\ Finish(t, Raise(KeyErr(arg[t])))
    /\ UNCHANGED <<backing_up, loaded_platforms, platforms, loaded_backups,
                   files, restore_file, restarts, now, calls, op, arg>>

\* The worker thread runs _write_restore_file: the file is written, or
\* write_text raises OSError.
exec_write_restore_file(t) ==
    /\ pc[t] = "write_restore_file"
    /\ ~job[t].ran
    /\ \/ /\ restore_file' = <<loc[t].backup[1].path>>
          /\ job' = Set(job, t, Ran(TRUE, EmptyMap))
       \/ /\ UNCHANGED restore_file
          /\ job' = Set(job, t, Ran(FALSE, EmptyMap))
    /\ UNCHANGED <<backing_up, backups, loaded_platforms, platforms,
                   loaded_backups, files, restarts, now, calls, op, arg, pc,
                   res, loc, pre, post>>

\* Mutant of restore_backup_resume: the result of the job is dropped and the
\* restart service called whether or not the restore file was written.
restore_backup_resume_unchecked(t) ==
    /\ pc[t] = "write_restore_file"
    /\ job[t].ran
    /\ restarts' = Set(restarts, t, restarts[t] + 1)
    /\ \/ Finish(t, ReturnNone)
       \/ Finish(t, Raise(ServiceError))
    /\ UNCHANGED <<backing_up, backups, loaded_platforms, platforms,
                   loaded_backups, files, restore_file, now, calls, op, arg>>

\* async_restore_backup after the write: the exception of the job
\* propagates, or the restart service is called, which returns or raises.
restore_backup_resume(t) ==
    /\ pc[t] = "write_restore_file"
    /\ job[t].ran
    /\ IF job[t].ok
       THEN /\ restarts' = Set(restarts, t, restarts[t] + 1)
            /\ \/ Finish(t, ReturnNone)
               \/ Finish(t, Raise(ServiceError))
       ELSE /\ UNCHANGED restarts
            /\ Finish(t, Raise(RestoreFileError))
    /\ UNCHANGED <<backing_up, backups, loaded_platforms, platforms,
                   loaded_backups, files, restore_file, now, calls, op, arg>>

\* An archive is deleted from outside the manager.
external_delete(p) ==
    /\ p \in DOMAIN files
    /\ files' = Pop(files, p)
    /\ UNCHANGED <<backing_up, backups, loaded_platforms, platforms,
                   loaded_backups, restore_file, restarts, now, calls, op,
                   arg, pc, res, job, loc, pre, post>>

\* ------------------------------------------------------------ platforms
\* Mutant of _add_platform: "and" for "or" in the test, so that only a
\* platform with neither hook is left out.
_add_platform_lacking_both(plats, domain) ==
    IF ~HasPre(domain) /\ ~HasPost(domain) THEN plats
    ELSE IF domain \in Range(plats) THEN plats
    ELSE Append(plats, domain)

\* _add_platform: a platform without both hooks is left out; a dict keeps
\* the place of a key it already holds.
_add_platform(plats, domain) ==
    IF ~HasHooks(domain) THEN plats
    ELSE IF domain \in Range(plats) THEN plats
    ELSE Append(plats, domain)

RECURSIVE AddAll(_, _)
AddAll(plats, found) ==
    IF found = <<>> THEN plats
    ELSE AddAll(_add_platform(plats, Head(found)), Tail(found))

\* self.platforms once async_process_integration_platforms has returned.
ProcessIntegrationPlatforms(plats) == AddAll(plats, Discovered)

\* asyncio.gather over self.platforms.values(): one coroutine per platform.
Gather(plats) ==
    [d \in Range(Discovered) |-> IF d \in Range(plats) THEN "pending" ELSE "none"]

\* The gather returns when every coroutine has returned or raised.
GatherDone(h) == \A d \in DOMAIN h : h[d] # "pending"

\* Mutant of FirstException: the last exception among the results is raised.
RECURSIVE LastException(_, _, _)
LastException(plats, h, phase) ==
    IF plats = <<>> THEN <<>>
    ELSE IF h[plats[Len(plats)]] = "err"
         THEN <<HookError(phase, plats[Len(plats)])>>
    ELSE LastException(SubSeq(plats, 1, Len(plats) - 1), h, phase)

\* The loop over the results of the gather, which are in the order of
\* self.platforms: <<>> when no result is an exception, else <<the first>>.
RECURSIVE FirstException(_, _, _)
FirstException(plats, h, phase) ==
    IF plats = <<>> THEN <<>>
    ELSE IF h[Head(plats)] = "err" THEN <<HookError(phase, Head(plats))>>
    ELSE FirstException(Tail(plats), h, phase)

\* A hook of task t ends: it returns or it raises.
pre_backup_hook(t, d) ==
    /\ pc[t] = "pre_hooks"
    /\ pre[t][d] = "pending"
    /\ \E r \in {"ok", "err"} : pre' = Set(pre, t, [pre[t] EXCEPT ![d] = r])
    /\ UNCHANGED <<backing_up, backups, loaded_platforms, platforms,
                   loaded_backups, files, restore_file, restarts, now, calls,
                   op, arg, pc, res, job, loc, post>>

post_backup_hook(t, d) ==
    /\ pc[t] = "post_hooks"
    /\ post[t][d] = "pending"
    /\ \E r \in {"ok", "err"} : post' = Set(post, t, [post[t] EXCEPT ![d] = r])
    /\ UNCHANGED <<backing_up, backups, loaded_platforms, platforms,
                   loaded_backups, files, restore_file, restarts, now, calls,
                   op, arg, pc, res, job, loc, pre>>

\* The coroutines of a gather that has returned: each ran to its end.
Ended(h) == [d \in DOMAIN h |-> IF h[d] = "none" THEN "none" ELSE "done"]

\* ------------------------------------------------------------ create
\* _get_last_full_backup: is there a record whose name starts "Full Backup".
_get_last_full_backup(bk) ==
    \E s \in DOMAIN bk : startswith(bk[s].name, "Full Backup")

\* Mutant of backup_name: the search for a prior full backup is the one that
\* selects the writer (a record named "Core" whose file exists).
backup_name_by_core_record(bk) ==
    IF ~(\E s \in DOMAIN bk : startswith(bk[s].name, "Core"))
    THEN FullName ELSE IncrementalName

\* The name async_create_backup gives the new backup.
backup_name(bk) ==
    IF ~_get_last_full_backup(bk) THEN FullName ELSE IncrementalName

\* The second search of async_create_backup: a record whose name starts
\* "Core" and whose file exists selects the incremental writer.
ArchiveWriter(bk, fs) ==
    IF \E s \in DOMAIN bk :
          startswith(bk[s].name, "Core") /\ bk[s].path \in DOMAIN fs
    THEN "incremental" ELSE "full"

\* The archive _mkdir_and_generate_backup_contents writes for backup b.
FullArchive(b) ==
    Archive("tar", "./backup.json", TRUE,
            RequiredKeys \cup {"type", "folders", "homeassistant",
                               "compressed", "backup_type"},
            b.slug, b.name, b.date, "full")

\* The archive _create_incremental_backup_contents writes at path at time
\* date: gzip-compressed, its metadata member named "backup.json".
IncrementalArchive(path, date) ==
    Archive("gz", "backup.json", TRUE, RequiredKeys \cup {"backup_type"},
            stem(path), <<"Incremental Backup", stem(path)>>, date,
            "incremental")

\* async_create_backup from the end of the pre-backup actions to the await
\* of the archive writer (hp: its pre-backup coroutines).
CreateBody(t, hp) ==
    LET name == backup_name(backups)
        slug == _generate_slug(now, name)
        b == Backup(slug, name, now, TarPath(slug))
    IN  /\ now' = now + 1
        /\ Suspend(t, "write_archive",
                   [backup |-> <<b>>, exc |-> <<>>,
                    writer |-> ArchiveWriter(backups, files)],
                   hp, NoHooks)

\* How async_create_backup ends: exc is the exception pending when the
\* finally block was entered, e the one async_post_backup_actions raised
\* (each <<>> when there is none).  An exception raised in the finally block
\* replaces the pending one, which becomes its __context__.
CreateResult(t, exc, e) ==
    IF e # <<>> THEN Raise([e[1] EXCEPT !.context = exc])
    ELSE IF exc # <<>> THEN Raise(exc[1])
    ELSE Return(loc[t].backup[1])

\* async_post_backup_actions of task t, running method o, from the gather on
\* (plats: self.platforms), and what follows it without an await; l: the
\* locals of the caller, hp: its pre-backup coroutines.
StartPost(t, o, plats, l, hp) ==
    IF plats # <<>>
    THEN Suspend(t, "post_hooks", l, hp, Gather(plats))
    ELSE Finish(t, IF o = "create_backup" THEN CreateResult(t, l.exc, <<>>)
                   ELSE ReturnNone)

\* Mutant of Finally: an except clause in its place, which resets the flag
\* and re-raises; the post-backup actions run only after a try block that
\* returned.
Finally_except_only(t, exc, hp) ==
    /\ backing_up' = FALSE
    /\ IF exc # <<>>
       THEN Finish(t, Raise(exc[1]))
       ELSE StartPost(t, "create_backup", platforms,
                      [loc[t] EXCEPT !.exc = exc], hp)

\* Mutant of Finally: the flag is reset at the end of the try block, not in
\* the finally block, so an exception leaves it set.
Finally_flag_kept_on_error(t, exc, hp) ==
    /\ backing_up' = (exc # <<>>)
    /\ IF ~loaded_platforms
       THEN Suspend(t, "post_load", [loc[t] EXCEPT !.exc = exc], hp, NoHooks)
       ELSE StartPost(t, "create_backup", platforms,
                      [loc[t] EXCEPT !.exc = exc], hp)

\* The finally block of async_create_backup, entered with the pending
\* exception exc, to its await or its end.
Finally(t, exc, hp) ==
    /\ backing_up' = FALSE
    /\ IF ~loaded_platforms
       THEN Suspend(t, "post_load", [loc[t] EXCEPT !.exc = exc], hp, NoHooks)
       ELSE StartPost(t, "create_backup", platforms,
                      [loc[t] EXCEPT !.exc = exc], hp)

\* async_pre_backup_actions of task t, running method o, from the gather on,
\* and what follows it without an await.
StartPre(t, o, plats) ==
    IF plats # <<>>
    THEN /\ Suspend(t, "pre_hooks", NoLoc, Gather(plats), NoHooks)
         /\ UNCHANGED now
    ELSE IF o = "create_backup"
         THEN CreateBody(t, NoHooks)
         ELSE /\ Finish(t, ReturnNone)
              /\ UNCHANGED now

\* async_pre_backup_actions of task t up to its first await.
PreActions(t, o) ==
    IF ~loaded_platforms
    THEN /\ Suspend(t, "pre_load", NoLoc, NoHooks, NoHooks)
         /\ UNCHANGED now
    ELSE StartPre(t, o, platforms)

\* Mutant of async_create_backup: the guard inside the try block, so that
\* the finally block resets the flag of the create in progress.
async_create_backup_guard_in_try(t) ==
    /\ Call(t, "create_backup", NoSlug)
    /\ backing_up \/ now <= MaxClock
    /\ IF backing_up
       THEN /\ Finish(t, Raise(AlreadyInProgress))
            /\ backing_up' = FALSE
            /\ UNCHANGED now
       ELSE /\ backing_up' = TRUE
            /\ PreActions(t, "create_backup")
    /\ UNCHANGED <<backups, loaded_platforms, platforms, loaded_backups,
                   files, restore_file>>

\* Mutant of async_create_backup: without the guard.
async_create_backup_no_guard(t) ==
    /\ Call(t, "create_backup", NoSlug)
    /\ now <= MaxClock
    /\ backing_up' = TRUE
    /\ PreActions(t, "create_backup")
    /\ UNCHANGED <<backups, loaded_platforms, platforms, loaded_backups,
                   files, restore_file>>

\* A call of async_create_backup, up to its first await.
async_create_backup(t) ==
    /\ Call(t, "create_backup", NoSlug)
    /\ backing_up \/ now <= MaxClock
    /\ IF backing_up
       THEN /\ Finish(t, Raise(AlreadyInProgress))
            /\ UNCHANGED <<backing_up, now>>
       ELSE /\ backing_up' = TRUE
            /\ PreActions(t, "create_backup")
    /\ UNCHANGED <<backups, loaded_platforms, platforms, loaded_backups,
                   files, restore_file>>

\* A call of async_pre_backup_actions on its own.
async_pre_backup_actions(t) ==
    /\ Call(t, "pre_backup_actions", NoSlug)
    /\ PreActions(t, "pre_backup_actions")
    /\ UNCHANGED <<backing_up, backups, loaded_platforms, platforms,
                   loaded_backups, files, restore_file>>

\* A call of async_post_backup_actions on its own.
async_post_backup_actions(t) ==
    /\ Call(t, "post_backup_actions", NoSlug)
    /\ IF ~loaded_platforms
       THEN Suspend(t, "post_load", NoLoc, NoHooks, NoHooks)
       ELSE StartPost(t, "post_backup_actions", platforms, NoLoc, NoHooks)
    /\ UNCHANGED <<backing_up, backups, loaded_platforms, platforms,
                   loaded_backups, files, restore_file, now>>

\* A call of load_platforms on its own.
load_platforms(t) ==
    /\ Call(t, "load_platforms", NoSlug)
    /\ Suspend(t, "load_platforms", NoLoc, NoHooks, NoHooks)
    /\ UNCHANGED <<backing_up, backups, loaded_platforms, platforms,
                   loaded_backups, files, restore_file, now>>

\* Mutant of pre_load_resume: load_platforms does not set loaded_platforms.
pre_load_resume_flag_not_set(t) ==
    /\ pc[t] = "pre_load"
    /\ platforms' = ProcessIntegrationPlatforms(platforms)
    /\ UNCHANGED loaded_platforms
    /\ StartPre(t, op[t], ProcessIntegrationPlatforms(platforms))
    /\ UNCHANGED <<backing_up, backups, loaded_backups, files, restore_file,
                   restarts, calls, op, arg>>

\* load_platforms, awaited by async_pre_backup_actions, returns.
pre_load_resume(t) ==
    /\ pc[t] = "pre_load"
    /\ platforms' = ProcessIntegrationPlatforms(platforms)
    /\ loaded_platforms' = TRUE
    /\ StartPre(t, op[t], ProcessIntegrationPlatforms(platforms))
    /\ UNCHANGED <<backing_up, backups, loaded_backups, files, restore_file,
                   restarts, calls, op, arg>>

\* load_platforms, awaited by async_post_backup_actions, returns.
post_load_resume(t) ==
    /\ pc[t] = "post_load"
    /\ platforms' = ProcessIntegrationPlatforms(platforms)
    /\ loaded_platforms' = TRUE
    /\ StartPost(t, op[t], ProcessIntegrationPlatforms(platforms), loc[t],
                 pre[t])
    /\ UNCHANGED <<backing_up, backups, loaded_backups, files, restore_file,
                   restarts, now, calls, op, arg>>

\* load_platforms, called on its own, returns.
load_platforms_resume(t) ==
    /\ pc[t] = "load_platforms"
    /\ platforms' = ProcessIntegrationPlatforms(platforms)
    /\ loaded_platforms' = TRUE
    /\ Finish(t, ReturnNone)
    /\ UNCHANGED <<backing_up, backups, loaded_backups, files, restore_file,
                   restarts, now, calls, op, arg>>

\* Mutant of pre_gather_resume: the results of the gather are not looked
\* at, and async_create_backup goes on whatever the hooks did.
pre_gather_resume_results_dropped(t) ==
    /\ pc[t] = "pre_hooks"
    /\ GatherDone(pre[t])
    /\ IF op[t] = "create_backup"
       THEN /\ CreateBody(t, Ended(pre[t]))
            /\ UNCHANGED backing_up
       ELSE /\ Finish(t, ReturnNone)
            /\ UNCHANGED <<backing_up, now>>
    /\ UNCHANGED <<backups, loaded_platforms, platforms, loaded_backups,
                   files, restore_file, restarts, calls, op, arg>>

\* The gather of the pre-backup hooks returns: the first exception among its
\* results is raised, else the caller goes on.
pre_gather_resume(t) ==
    /\ pc[t] = "pre_hooks"
    /\ GatherDone(pre[t])
    /\ LET e == FirstException(platforms, pre[t], "pre") IN
       IF op[t] = "create_backup"
       THEN IF e # <<>>
            THEN /\ Finally(t, e, Ended(pre[t]))
                 /\ UNCHANGED now
            ELSE /\ CreateBody(t, Ended(pre[t]))
                 /\ UNCHANGED backing_up
       ELSE /\ Finish(t, IF e # <<>> THEN Raise(e[1]) ELSE ReturnNone)
            /\ UNCHANGED <<backing_up, now>>
    /\ UNCHANGED <<backups, loaded_platforms, platforms, loaded_backups,
                   files, restore_file, restarts, calls, op, arg>>

\* The worker thread runs _mkdir_and_generate_backup_contents: the archive
\* is written, or the job raises.
exec_mkdir_and_generate_backup_contents(t) ==
    /\ pc[t] = "write_archive"
    /\ ~job[t].ran
    /\ loc[t].writer = "full"
    /\ \/ /\ files' = Put(files, loc[t].backup[1].path,
                          FullArchive(loc[t].backup[1]))
          /\ job' = Set(job, t, Ran(TRUE, EmptyMap))
       \/ /\ UNCHANGED files
          /\ job' = Set(job, t, Ran(FALSE, EmptyMap))
    /\ UNCHANGED <<backing_up, backups, loaded_platforms, platforms,
                   loaded_backups, restore_file, restarts, now, calls, op,
                   arg, pc, res, loc, pre, post>>

\* The worker thread runs _create_incremental_backup_contents, which reads
\* the clock for the date of its metadata.
exec_create_incremental_backup_contents(t) ==
    /\ pc[t] = "write_archive"
    /\ ~job[t].ran
    /\ loc[t].writer = "incremental"
    /\ \/ /\ files' = Put(files, loc[t].backup[1].path,
                          IncrementalArchive(loc[t].backup[1].path, now))
          /\ job' = Set(job, t, Ran(TRUE, EmptyMap))
       \/ /\ UNCHANGED files
          /\ job' = Set(job, t, Ran(FALSE, EmptyMap))
    /\ UNCHANGED <<backing_up, backups, loaded_platforms, platforms,
                   loaded_backups, restore_file, restarts, now, calls, op,
                   arg, pc, res, loc, pre, post>>

\* Mutant of write_archive_resume: the record is inserted whether or not
\* the store is loaded.
write_archive_resume_always_inserts(t) ==
    /\ pc[t] = "write_archive"
    /\ job[t].ran
    /\ IF job[t].ok
       THEN /\ backups' = Put(backups, loc[t].backup[1].slug,
                              loc[t].backup[1])
            /\ Finally(t, <<>>, pre[t])
       ELSE /\ UNCHANGED backups
            /\ Finally(t, <<WriteError>>, pre[t])
    /\ UNCHANGED <<loaded_platforms, platforms, loaded_backups, files,
                   restore_file, restarts, now, calls, op, arg>>

\* async_create_backup after the archive writer: the record is inserted when
\* the store is loaded, and the finally block runs.
write_archive_resume(t) ==
    /\ pc[t] = "write_archive"
    /\ job[t].ran
    /\ IF job[t].ok
       THEN /\ backups' = IF loaded_backups
                          THEN Put(backups, loc[t].backup[1].slug,
                                   loc[t].backup[1])
                          ELSE backups
            /\ Finally(t, <<>>, pre[t])
       ELSE /\ UNCHANGED backups
            /\ Finally(t, <<WriteError>>, pre[t])
    /\ UNCHANGED <<loaded_platforms, platforms, loaded_backups, files,
                   restore_file, restarts, now, calls, op, arg>>

\* The gather of the post-backup hooks returns.
post_gather_resume(t) ==
    /\ pc[t] = "post_hooks"
    /\ GatherDone(post[t])
    /\ LET e == FirstException(platforms, post[t], "post") IN
       Finish(t, IF op[t] = "create_backup"
                 THEN CreateResult(t, loc[t].exc, e)
                 ELSE IF e # <<>> THEN Raise(e[1]) ELSE ReturnNone)
    /\ UNCHANGED <<backing_up, backups, loaded_platforms, platforms,
                   loaded_backups, files, restore_file, restarts, now, calls,
                   op, arg>>

\* ------------------------------------------------------------ Next
Next ==
    \/ \E t \in Tasks : load_backups(t)
         /\ UNCHANGED <<debounce_vars, iid_vars>>
    \/ \E t \in Tasks : async_get_backups(t)
         /\ UNCHANGED <<debounce_vars, iid_vars>>
    \/ \E t \in Tasks : \E s \in KnownSlugs : async_get_backup(t, s)
         /\ UNCHANGED <<debounce_vars, iid_vars>>
    \/ \E t \in Tasks : \E s \in KnownSlugs : async_remove_backup(t, s)
         /\ UNCHANGED <<debounce_vars, iid_vars>>
    \/ \E t \in Tasks : \E s \in KnownSlugs : async_restore_backup(t, s)
         /\ UNCHANGED <<debounce_vars, iid_vars>>
    \/ \E t \in Tasks : exec_read_backups(t)
         /\ UNCHANGED <<debounce_vars, iid_vars>>
    \/ \E t \in Tasks : load_backups_resume(t)
         /\ UNCHANGED <<debounce_vars, iid_vars>>
    \/ \E t \in Tasks : exec_unlink(t)
         /\ UNCHANGED <<debounce_vars, iid_vars>>
    \/ \E t \in Tasks : remove_backup_resume(t)
         /\ UNCHANGED <<debounce_vars, iid_vars>>
    \/ \E t \in Tasks : exec_write_restore_file(t)
         /\ UNCHANGED <<debounce_vars, iid_vars>>
    \/ \E t \in Tasks : restore_backup_resume(t)
         /\ UNCHANGED <<debounce_vars, iid_vars>>
    \/ \E p \in DOMAIN files : external_delete(p)
         /\ UNCHANGED <<debounce_vars, iid_vars>>
    \/ \E t \in Tasks : async_create_backup(t)
         /\ UNCHANGED <<debounce_vars, iid_vars>>
    \/ \E t \in Tasks : async_pre_backup_actions(t)
         /\ UNCHANGED <<debounce_vars, iid_vars>>
    \/ \E t \in Tasks : async_post_backup_actions(t)
         /\ UNCHANGED <<debounce_vars, iid_vars>>
    \/ \E t \in Tasks : load_platforms(t)
         /\ UNCHANGED <<debounce_vars, iid_vars>>
    \/ \E t \in Tasks : pre_load_resume(t)
         /\ UNCHANGED <<debounce_vars, iid_vars>>
    \/ \E t \in Tasks : post_load_resume(t)
         /\ UNCHANGED <<debounce_vars, iid_vars>>
    \/ \E t \in Tasks : load_platforms_resume(t)
         /\ UNCHANGED <<debounce_vars, iid_vars>>
    \/ \E t \in Tasks : \E d \in Range(Discovered) : pre_backup_hook(t, d)
         /\ UNCHANGED <<debounce_vars, iid_vars>>
    \/ \E t \in Tasks : \E d \in Range(Discovered) : post_backup_hook(t, d)
         /\ UNCHANGED <<debounce_vars, iid_vars>>
    \/ \E t \in Tasks : pre_gather_resume(t)
         /\ UNCHANGED <<debounce_vars, iid_vars>>
    \/ \E t \in Tasks : exec_mkdir_and_generate_backup_contents(t)
         /\ UNCHANGED <<debounce_vars, iid_vars>>
    \/ \E t \in Tasks : exec_create_incremental_backup_contents(t)
         /\ UNCHANGED <<debounce_vars, iid_vars>>
    \/ \E t \in Tasks : write_archive_resume(t)
         /\ UNCHANGED <<debounce_vars, iid_vars>>
    \/ \E t \in Tasks : post_gather_resume(t)
         /\ UNCHANGED <<debounce_vars, iid_vars>>

Spec == Init /\ [][Next]_vars

\* ------------------------------------------------------------ scans
\* The files a scan can meet.  A file is the archive of a full backup taken
\* at date d, as _mkdir_and_generate_backup_contents wrote it, or that
\* archive damaged in one way.
ScanBackup(d) ==
    Backup(_generate_slug(d, FullName), FullName, d,
           TarPath(_generate_slug(d, FullName)))

FileKinds ==
    {"well-formed", "unopenable", "not a tar", "gzip", "no metadata",
     "metadata is a directory", "malformed json", "no slug", "no name",
     "no date"}

FileOfKind(b, kind) ==
    LET a == FullArchive(b) IN
    CASE kind = "well-formed" -> a
      [] kind = "unopenable" -> [a EXCEPT !.mode = "oserror"]
      [] kind = "not a tar" -> [a EXCEPT !.mode = "nottar"]
      [] kind = "gzip" -> IncrementalArchive(b.path, b.date)
      [] kind = "no metadata" -> [a EXCEPT !.member = ""]
      [] kind = "metadata is a directory" ->
           [a EXCEPT !.member = "./backup.json/"]
      [] kind = "malformed json" -> [a EXCEPT !.json = FALSE]
      [] kind = "no slug" -> [a EXCEPT !.keys = @ \ {"slug"}]
      [] kind = "no name" -> [a EXCEPT !.keys = @ \ {"name"}]
      [] kind = "no date" -> [a EXCEPT !.keys = @ \ {"date"}]

\* The directories of at most MaxFiles files, each of some kind.
ScanDirectories ==
    UNION { { [p \in {ScanBackup(d).path : d \in D} |->
                 LET d == CHOOSE d \in D : ScanBackup(d).path = p
                 IN  FileOfKind(ScanBackup(d), kind[d])]
              : kind \in [D -> FileKinds] }
            : D \in SUBSET (0..(MaxFiles - 1)) }

\* A manager constructed over any such directory.
InitScan ==
    /\ backing_up = FALSE
    /\ backups = EmptyMap
    /\ loaded_platforms = FALSE
    /\ platforms = <<>>
    /\ loaded_backups = FALSE
    /\ files \in ScanDirectories
    /\ restore_file = <<>>
    /\ restarts = [t \in Tasks |-> 0]
    /\ now = 1
    /\ calls = [t \in Tasks |-> 0]
    /\ op = [t \in Tasks |-> "none"]
    /\ arg = [t \in Tasks |-> NoSlug]
    /\ pc = [t \in Tasks |-> "idle"]
    /\ res = [t \in Tasks |-> NoRes]
    /\ job = [t \in Tasks |-> NoJob]
    /\ loc = [t \in Tasks |-> NoLoc]
    /\ pre = [t \in Tasks |-> NoHooks]
    /\ post = [t \in Tasks |-> NoHooks]
    /\ Debounce__init__
    /\ async_initialize(NoStorage)

\* The calls that scan the directory and return the store.
NextScan ==
    \/ \E t \in Tasks : load_backups(t)
         /\ UNCHANGED <<debounce_vars, iid_vars>>
    \/ \E t \in Tasks : async_get_backups(t)
         /\ UNCHANGED <<debounce_vars, iid_vars>>
    \/ \E t \in Tasks : exec_read_backups(t)
         /\ UNCHANGED <<debounce_vars, iid_vars>>
    \/ \E t \in Tasks : load_backups_resume(t)
         /\ UNCHANGED <<debounce_vars, iid_vars>>

SpecScan == InitScan /\ [][NextScan]_vars

\* ------------------------------------------------------------ creates
\* A full backup this manager wrote in an earlier run, and its archive.
EarlierBackup ==
    Backup(_generate_slug(0, FullName), FullName, 0,
           TarPath(_generate_slug(0, FullName)))

\* The directories a manager that creates backups is constructed over: with
\* or without the archive of the stock integration, with or without an
\* earlier full backup.
CreateDirectories ==
    {EmptyMap,
     InitialDirectory,
     Put(EmptyMap, EarlierBackup.path, FullArchive(EarlierBackup)),
     Put(InitialDirectory, EarlierBackup.path, FullArchive(EarlierBackup))}

InitCreate ==
    /\ backing_up = FALSE
    /\ backups = EmptyMap
    /\ loaded_platforms = FALSE
    /\ platforms = <<>>
    /\ loaded_backups = FALSE
    /\ files \in CreateDirectories
    /\ restore_file = <<>>
    /\ restarts = [t \in Tasks |-> 0]
    /\ now = 1
    /\ calls = [t \in Tasks |-> 0]
    /\ op = [t \in Tasks |-> "none"]
    /\ arg = [t \in Tasks |-> NoSlug]
    /\ pc = [t \in Tasks |-> "idle"]
    /\ res = [t \in Tasks |-> NoRes]
    /\ job = [t \in Tasks |-> NoJob]
    /\ loc = [t \in Tasks |-> NoLoc]
    /\ pre = [t \in Tasks |-> NoHooks]
    /\ post = [t \in Tasks |-> NoHooks]
    /\ Debounce__init__
    /\ async_initialize(NoStorage)

\* load_backups and async_create_backup, with everything they await.
NextCreate ==
    \/ \E t \in Tasks : load_backups(t)
         /\ UNCHANGED <<debounce_vars, iid_vars>>
    \/ \E t \in Tasks : exec_read_backups(t)
         /\ UNCHANGED <<debounce_vars, iid_vars>>
    \/ \E t \in Tasks : load_backups_resume(t)
         /\ UNCHANGED <<debounce_vars, iid_vars>>
    \/ \E t \in Tasks : async_create_backup(t)
         /\ UNCHANGED <<debounce_vars, iid_vars>>
    \/ \E t \in Tasks : pre_load_resume(t)
         /\ UNCHANGED <<debounce_vars, iid_vars>>
    \/ \E t \in Tasks : \E d \in Range(Discovered) : pre_backup_hook(t, d)
         /\ UNCHANGED <<debounce_vars, iid_vars>>
    \/ \E t \in Tasks : pre_gather_resume(t)
         /\ UNCHANGED <<debounce_vars, iid_vars>>
    \/ \E t \in Tasks : exec_mkdir_and_generate_backup_contents(t)
         /\ UNCHANGED <<debounce_vars, iid_vars>>
    \/ \E t \in Tasks : exec_create_incremental_backup_contents(t)
         /\ UNCHANGED <<debounce_vars, iid_vars>>
    \/ \E t \in Tasks : write_archive_resume(t)
         /\ UNCHANGED <<debounce_vars, iid_vars>>
    \/ \E t \in Tasks : \E d \in Range(Discovered) : post_backup_hook(t, d)
         /\ UNCHANGED <<debounce_vars, iid_vars>>
    \/ \E t \in Tasks : post_gather_resume(t)
         /\ UNCHANGED <<debounce_vars, iid_vars>>

SpecCreate == InitCreate /\ [][NextCreate]_vars

\* A step of the manager: the other objects are left alone.
Manager(A) == A /\ UNCHANGED <<debounce_vars, iid_vars>>

\* The event loop resumes every coroutine whose await has ended, the
\* executor runs every job handed to it, and every hook returns or raises.
\* Nothing obliges a caller to make a call.
Scheduling ==
    \A t \in Tasks :
        /\ WF_vars(Manager(exec_read_backups(t)))
        /\ WF_vars(Manager(load_backups_resume(t)))
        /\ WF_vars(Manager(pre_load_resume(t)))
        /\ WF_vars(Manager(pre_gather_resume(t)))
        /\ WF_vars(Manager(exec_mkdir_and_generate_backup_contents(t)))
        /\ WF_vars(Manager(exec_create_incremental_backup_contents(t)))
        /\ WF_vars(Manager(write_archive_resume(t)))
        /\ WF_vars(Manager(post_gather_resume(t)))
        /\ \A d \in Range(Discovered) :
             /\ WF_vars(Manager(pre_backup_hook(t, d)))
             /\ WF_vars(Manager(post_backup_hook(t, d)))

SpecCreateFair == SpecCreate /\ Scheduling

\* ------------------------------------------------------------ debounces
\* The debounced callable, its close() and the processing tasks.
NextDebounce ==
    \/ debounced_wrapper
    \/ \E c \in Closers : close(c)
    \/ \E c \in Closers : close_resume(c)
    \/ \E i \in DOMAIN tasks : task_start(i)
    \/ \E i \in DOMAIN tasks : func_return(i)
    \/ \E i \in DOMAIN tasks : \E caught \in BOOLEAN :
          func_cancelled(i, caught)
    \/ \E i \in DOMAIN tasks : func_close(i)
    \/ \E i \in DOMAIN tasks : sleep_end(i)

SpecDebounce == Init /\ [][NextDebounce]_vars

\* ------------------------------------------------------------ iids
\* A storage initialized from any Store.
InitIID ==
    /\ ManagerConstructed
    /\ Debounce__init__
    /\ \E raw_storage \in StoredData : async_initialize(raw_storage)

NextIID ==
    \/ \E aid \in Aids, service_uuid \in ServiceUuids,
          service_unique_id \in UniqueIds, char_uuid \in CharUuids,
          char_unique_id \in UniqueIds :
            get_or_allocate_iid(aid, service_uuid, service_unique_id,
                                char_uuid, char_unique_id)
    \/ delayed_save

SpecIID == InitIID /\ [][NextIID]_vars

\* ------------------------------------------------------------ properties
\* Task t makes a call in this step.
Calls(t) == calls'[t] = calls[t] + 1

\* Task t is between the guard of async_create_backup and its end.
InFlight(t) == op[t] = "create_backup" /\ pc[t] # "idle"

Rejected(t) ==
    op[t] = "create_backup" /\ pc[t] = "idle"
    /\ res[t] = Raise(AlreadyInProgress)

\* The index of the first platform, in registration order, whose hook in h
\* raised.
FirstFailed(h) ==
    CHOOSE i \in 1..Len(platforms) :
        /\ h[platforms[i]] = "err"
        /\ \A j \in 1..(i - 1) : h[platforms[j]] # "err"

\* C1: a call of create_backup made while backing_up is true raises "Backup
\* already in progress" at once and changes nothing: no hook is started, no
\* archive job is submitted, the record store, the directory and the
\* registry are as before, and backing_up is still true.
C1_RejectedCreateHasNoEffect ==
    [][\A t \in Tasks :
         (Calls(t) /\ op'[t] = "create_backup" /\ backing_up) =>
            /\ pc'[t] = "idle"
            /\ res'[t] = Raise(AlreadyInProgress)
            /\ backing_up'
            /\ pre'[t] = NoHooks /\ post'[t] = NoHooks /\ job'[t] = NoJob
            /\ UNCHANGED <<backups, loaded_backups, loaded_platforms,
                           platforms, files, restore_file, now>>
            /\ \A u \in Tasks \ {t} :
                 UNCHANGED <<pc[u], res[u], job[u], loc[u], pre[u], post[u]>>
      ]_vars

\* C1 witness: a create was rejected while another one is in flight.
C1_Witness ==
    \E t, u \in Tasks :
        t # u /\ Rejected(t) /\ InFlight(u) /\ backing_up

\* C2 (as claimed): with a second create rejected, backing_up stays true
\* until the post-backup hooks of the first create have finished.
C2_FlagHeldUntilCleanupDone ==
    \A t, u \in Tasks :
        (t # u /\ Rejected(u) /\ op[t] = "create_backup"
         /\ pc[t] \in {"post_load", "post_hooks"}) => backing_up

\* C3 (as claimed): at most one create_backup is in flight at any time.
C3_SingleFlight == Cardinality({t \in Tasks : InFlight(t)}) <= 1

\* C4: a create_backup that passed the guard sets backing_up to false when
\* it leaves its try block, however it leaves it, and does not end before
\* the post-backup hook of every registered platform has ended.
C4_CleanupAlwaysRuns ==
    [][\A t \in Tasks :
         /\ (InFlight(t) /\ pc[t] \in {"pre_hooks", "write_archive"}
             /\ pc'[t] \notin {"pre_hooks", "write_archive"})
              => ~backing_up'
         /\ (InFlight(t) /\ pc'[t] = "idle")
              => \A d \in Range(platforms) : post[t][d] \in {"ok", "err"}
      ]_vars

\* C4 witness: a create whose archive writer failed has ended, with
\* platforms registered.
C4_Witness ==
    \E t \in Tasks :
        /\ op[t] = "create_backup" /\ pc[t] = "idle"
        /\ res[t] = Raise(WriteError)
        /\ platforms # <<>>
        /\ ~backing_up

\* C5: async_pre_backup_actions and async_post_backup_actions end only when
\* the hook of every registered platform has ended; they raise exactly when
\* some hook raised, and then the exception of the first such platform in
\* registration order.
C5_HookFanOut ==
    [][\A t \in Tasks :
         (op[t] \in {"pre_backup_actions", "post_backup_actions"}
          /\ pc[t] \in {"pre_hooks", "post_hooks"} /\ pc'[t] = "idle") =>
            LET h == IF pc[t] = "pre_hooks" THEN pre[t] ELSE post[t]
                phase == IF pc[t] = "pre_hooks" THEN "pre" ELSE "post"
                failed == \E d \in Range(platforms) : h[d] = "err"
            IN  /\ \A d \in Range(platforms) : h[d] \in {"ok", "err"}
                /\ (res'[t].st = "raise") <=> failed
                /\ ~failed => res'[t] = ReturnNone
                /\ failed => res'[t] =
                       Raise(HookError(phase, platforms[FirstFailed(h)]))
      ]_vars

\* C5 witness: the pre-backup actions ended raising the exception of the
\* second platform, so the first one's hook returned.
C5_Witness ==
    \E t \in Tasks :
        /\ op[t] = "pre_backup_actions" /\ pc[t] = "idle"
        /\ Len(platforms) = 2
        /\ res[t] = Raise(HookError("pre", platforms[2]))

\* C6 (as claimed): a create_backup in which a pre-backup hook raised ends
\* raising that hook's exception, or an exception whose cause it is,
\* whatever the post-backup hooks do.
C6_PreHookErrorSurfaces ==
    [][\A t \in Tasks :
         (InFlight(t) /\ pc'[t] = "idle" /\ pc[t] = "post_hooks"
          /\ loc[t].exc # <<>> /\ loc[t].exc[1].type = "HookError") =>
            /\ \A d \in Range(platforms) : Ended(pre[t])[d] = "done"
            /\ res'[t].st = "raise"
            /\ \/ res'[t].err[1] = loc[t].exc[1]
               \/ res'[t].err[1].cause = loc[t].exc
      ]_vars

\* The step in which async_restore_backup (or another method taking a slug)
\* of task t looks its slug up, and the map it looks it up in.
LooksUp(t, o) ==
    /\ op'[t] = o
    /\ \/ Calls(t) /\ loaded_backups
       \/ pc[t] = "load_backups" /\ job[t].ok /\ pc'[t] # "load_backups"
LookedUpIn(t) == IF pc[t] = "load_backups" THEN job[t].out ELSE backups

\* C7: restore_backup of a slug that is not in the record store, or whose
\* archive file is gone, raises "Backup <slug> not found", writes no restore
\* file and does not call the restart service.
C7_RestoreNotFound ==
    [][\A t \in Tasks :
         (LooksUp(t, "restore_backup")
          /\ (arg'[t] \notin DOMAIN LookedUpIn(t)
              \/ LookedUpIn(t)[arg'[t]].path \notin DOMAIN files)) =>
            /\ pc'[t] = "idle"
            /\ res'[t] = Raise(NotFound(arg'[t]))
            /\ restarts'[t] = 0
            /\ UNCHANGED <<restore_file, files>>
      ]_vars

\* C7 witness: restore_backup of the slug of a deleted archive ended with
\* the not-found failure.
C7_Witness ==
    \E t \in Tasks :
        /\ op[t] = "restore_backup" /\ pc[t] = "idle"
        /\ arg[t] = CoreSlug
        /\ TarPath(CoreSlug) \notin DOMAIN files
        /\ res[t] = Raise(NotFound(CoreSlug))

\* C8: restore_backup of a tracked backup whose file exists hands the path
\* of that record to the job that writes the restore file; the restart
\* service is called only after that job has run without raising, at most
\* once in a call, and once in every call that returns.
C8_MarkerBeforeRestart ==
    [][\A t \in Tasks :
         /\ (pc[t] # "write_restore_file" /\ pc'[t] = "write_restore_file")
              => /\ arg'[t] \in DOMAIN LookedUpIn(t)
                 /\ loc'[t].backup = <<LookedUpIn(t)[arg'[t]]>>
                 /\ loc'[t].backup[1].path \in DOMAIN files
                 /\ restarts'[t] = 0
         /\ (pc[t] = "write_restore_file" /\ ~job[t].ran /\ job'[t].ran
             /\ job'[t].ok)
              => restore_file' = <<loc[t].backup[1].path>>
         /\ (restarts'[t] > restarts[t])
              => /\ pc[t] = "write_restore_file"
                 /\ job[t].ran /\ job[t].ok
                 /\ restarts[t] = 0 /\ restarts'[t] = 1
         /\ (pc[t] = "write_restore_file" /\ pc'[t] = "idle")
              => /\ ~job[t].ok => restarts'[t] = 0 /\ res'[t].st = "raise"
                 /\ res'[t].st = "ret" => restarts'[t] = 1
      ]_vars

\* C8 witness: a restore_backup has returned, the restart service called
\* once and the restore file holding the path of the archive.
C8_Witness ==
    \E t \in Tasks :
        /\ op[t] = "restore_backup" /\ pc[t] = "idle"
        /\ res[t] = ReturnNone
        /\ restarts[t] = 1
        /\ restore_file = <<TarPath(arg[t])>>

\* C9 (as claimed): whatever restore_backup raises is a restore failure
\* "Failed to restore backup: ..." whose cause is the original exception.
C9_RestoreFailureWrapped ==
    \A t \in Tasks :
        (op[t] = "restore_backup" /\ pc[t] = "idle" /\ res[t].st = "raise") =>
            /\ res[t].err[1].msg = "Failed to restore backup: {err}"
            /\ res[t].err[1].cause # <<>>

\* C10 (as claimed): once get_backup(slug) has returned not-found and no
\* archive of that slug is in the directory, the slug is not in the record
\* store, which is what get_backups returns.
C10_EvictedStaysAbsent ==
    \A u \in Tasks :
        (op[u] = "get_backup" /\ pc[u] = "idle" /\ res[u] = ReturnNone
         /\ loaded_backups
         /\ \A p \in DOMAIN files : files[p].slug # arg[u])
            => arg[u] \notin DOMAIN backups

\* C11: remove_backup of a slug that is not in the record store (as loaded,
\* when the call triggers the lazy load) returns at once without raising,
\* deletes no file and leaves the records as they are.
C11_RemoveUnknownIsNoOp ==
    [][\A t \in Tasks :
         (LooksUp(t, "remove_backup") /\ arg'[t] \notin DOMAIN LookedUpIn(t)) =>
            /\ pc'[t] = "idle"
            /\ res'[t] = ReturnNone
            /\ backups' = LookedUpIn(t)
            /\ UNCHANGED <<files, restore_file>>
      ]_vars

\* C11 witness: remove_backup of a slug no archive has returned, with the
\* store loaded and the directory as it was.
C11_Witness ==
    \E t \in Tasks :
        /\ op[t] = "remove_backup" /\ pc[t] = "idle"
        /\ arg[t] = UnknownSlug
        /\ res[t] = ReturnNone
        /\ loaded_backups
        /\ DOMAIN backups = {CoreSlug}
        /\ files = InitialDirectory

\* C12 (as claimed): a remove_backup that found its slug tracked with the
\* file in place ends returning, with the archive file deleted, the slug
\* absent from the record store and every other record as it was; the
\* unlink does not fail when the file is already gone.
C12_RemoveTrackedSucceeds ==
    [][\A t \in Tasks :
         /\ (pc[t] = "unlink" /\ ~job[t].ran /\ job'[t].ran)
              => /\ job'[t].ok
                 /\ files' = Pop(files, loc[t].backup[1].path)
         /\ (pc[t] = "unlink" /\ pc'[t] = "idle")
              => /\ res'[t] = ReturnNone
                 /\ loc[t].backup[1].path \notin DOMAIN files'
                 /\ arg[t] \notin DOMAIN backups'
                 /\ \A s \in DOMAIN backups \ {arg[t]} :
                      s \in DOMAIN backups' /\ backups'[s] = backups[s]
      ]_vars

\* An archive a scan is to recover: a plain tar whose regular member
\* "./backup.json" is a JSON object holding slug, name and date.
WellFormed(a) ==
    /\ a.mode = "tar"
    /\ a.member = "./backup.json"
    /\ a.json
    /\ {"slug", "name", "date"} \subseteq a.keys

C14_CreateScanRoundTrip ==
    \A t \in Tasks :
        (op[t] = "create_backup" /\ pc[t] = "idle" /\ res[t].st = "ret"
         /\ res[t].val[1].path \in DOMAIN files) =>
            LET b == res[t].val[1] IN
            /\ ~ScanRaises(files)
            /\ \A out \in _read_backups(files) :
                 /\ b.slug \in DOMAIN out
                 /\ out[b.slug].name = b.name
                 /\ out[b.slug].date = b.date

\* C15: every platform in the registry has both hooks; a discovered
\* platform that lacks one of them is never registered, and load_platforms
\* still returns, with loaded_platforms true and every discovered platform
\* that has both hooks registered.
C15_RegistryHoldsFullPlatforms ==
    /\ \A d \in Range(platforms) : HasPre(d) /\ HasPost(d)
    /\ loaded_platforms =>
          Range(platforms) =
             {d \in Range(Discovered) : HasPre(d) /\ HasPost(d)}
    /\ \A t \in Tasks :
          (op[t] = "load_platforms" /\ pc[t] = "idle") =>
             res[t] = ReturnNone /\ loaded_platforms

\* C15 witness: load_platforms has returned, the discovery having met a
\* platform with neither hook and one with the pre-backup hook only.
C15_Witness ==
    /\ \E t \in Tasks : op[t] = "load_platforms" /\ pc[t] = "idle"
    /\ loaded_platforms
    /\ platforms = <<"alpha", "beta">>
    /\ \E d \in Range(Discovered) : ~HasPre(d) /\ ~HasPost(d)
    /\ \E d \in Range(Discovered) : HasPre(d) /\ ~HasPost(d)

\* C16: pre-backup or post-backup actions called while loaded_platforms is
\* false await the discovery before they start a hook, and the discovery
\* sets loaded_platforms; no hook is started while loaded_platforms is
\* false; pre-backup or post-backup actions that begin while
\* loaded_platforms is true start their hooks at once and do not run the
\* discovery.
C16_LazyPlatformLoad ==
    [][\A t \in Tasks :
         LET loads == {"pre_load", "post_load"}
             hooks == {"pre_hooks", "post_hooks"}
             actions == {"pre_backup_actions", "post_backup_actions"}
         IN  /\ (Calls(t) /\ op'[t] \in actions /\ ~loaded_platforms)
                  => /\ pc'[t] \in loads
                     /\ pre'[t] = NoHooks /\ post'[t] = NoHooks
                     /\ UNCHANGED <<platforms, loaded_platforms>>
             /\ (pc[t] \in loads /\ pc'[t] # pc[t])
                  => /\ loaded_platforms'
                     /\ platforms' = ProcessIntegrationPlatforms(platforms)
                     /\ pc'[t] \in hooks
             /\ (pc'[t] \in hooks /\ pc'[t] # pc[t])
                  => /\ loaded_platforms'
                     /\ \A d \in Range(platforms') :
                          (IF pc'[t] = "pre_hooks" THEN pre'[t] ELSE post'[t])[d]
                             = "pending"
             /\ (loaded_platforms /\ pc'[t] # pc[t]) => pc'[t] \notin loads
             /\ (Calls(t) /\ op'[t] \in actions /\ loaded_platforms)
                  => /\ pc'[t] \in hooks
                     /\ UNCHANGED <<platforms, loaded_platforms>>
      ]_vars

\* C16 witness: the pre-backup actions have run and returned, and
\* post-backup actions called afterwards, with loaded_platforms true, are
\* awaiting their hooks.
C16_Witness ==
    \E t, u \in Tasks :
        /\ op[u] = "pre_backup_actions" /\ pc[u] = "idle"
        /\ res[u] = ReturnNone
        /\ op[t] = "post_backup_actions" /\ pc[t] = "post_hooks"
        /\ loaded_platforms
        /\ \A d \in Range(platforms) : post[t][d] = "pending"

\* A name with its letters in upper case.
upper(name) ==
    <<CASE name[1] = "Full Backup" -> "FULL BACKUP"
        [] name[1] = "Incremental Backup" -> "INCREMENTAL BACKUP"
        [] name[1] = "Core" -> "CORE"
        [] OTHER -> name[1],
      name[2]>>

\* C17: the record create_backup forms, and returns, has the slug
\* _generate_slug(date, name) of its own date and name, which is also the
\* slug of the name in another letter case; the archive job writes the file
\* "<slug>.tar" of the backup directory and no other.
C17_SlugOfDateAndName ==
    [][\A t \in Tasks :
         /\ (op'[t] = "create_backup" /\ pc'[t] = "write_archive"
             /\ pc[t] # "write_archive")
              => LET b == loc'[t].backup[1] IN
                 /\ b.date = now
                 /\ b.slug = _generate_slug(b.date, b.name)
                 /\ b.slug = _generate_slug(b.date, upper(b.name))
                 /\ b.path = TarPath(b.slug)
         /\ (pc[t] = "write_archive" /\ ~job[t].ran /\ job'[t].ran
             /\ job'[t].ok)
              => /\ DOMAIN files' =
                       DOMAIN files \cup {TarPath(loc[t].backup[1].slug)}
                 /\ \A p \in DOMAIN files \ {TarPath(loc[t].backup[1].slug)} :
                      files'[p] = files[p]
         /\ (op[t] = "create_backup" /\ pc[t] # "idle" /\ pc'[t] = "idle"
             /\ res'[t].st = "ret")
              => LET b == res'[t].val[1] IN
                 /\ b = loc[t].backup[1]
                 /\ b.slug = _generate_slug(b.date, b.name)
                 /\ b.slug = _generate_slug(b.date, upper(b.name))
                 /\ b.path = TarPath(b.slug)
      ]_vars

\* C17 witness: create_backup has returned a record, and the archive is at
\* the path of its slug.
C17_Witness ==
    \E t \in Tasks :
        /\ op[t] = "create_backup" /\ pc[t] = "idle" /\ res[t].st = "ret"
        /\ TarPath(res[t].val[1].slug) \in DOMAIN files
        /\ upper(res[t].val[1].name) # res[t].val[1].name

\* C18: at most one create_backup awaits an archive-writing job, so at most
\* one such job (full or incremental) runs at a time; backing_up is true
\* for as long as one does.
C18_OneArchiveWriter ==
    /\ Cardinality({t \in Tasks : pc[t] = "write_archive"}) <= 1
    /\ (\E t \in Tasks : pc[t] = "write_archive") => backing_up

\* C18 witness: a create_backup awaits its archive job, which has not ended,
\* and the create_backup of another task was rejected.
C18_Witness ==
    \E t, u \in Tasks :
        /\ pc[t] = "write_archive" /\ ~job[t].ran
        /\ Rejected(u)

\* C19: a create_backup submits its archive job only when the pre-backup
\* hook of every registered platform has returned without raising; when a
\* pre-backup hook raised, the call forms no record, writes no archive and
\* inserts nothing into the store, and ends raising; its post-backup hooks
\* start only after the archive job, if one was submitted, has ended.
C19_HooksAroundArchive ==
    [][\A t \in Tasks :
         LET failed == \E d \in Range(platforms) : pre[t][d] = "err"
             posts == {"post_load", "post_hooks"}
         IN  /\ (op'[t] = "create_backup" /\ pc'[t] = "write_archive"
                 /\ pc[t] # "write_archive")
                  => /\ pc[t] = "pre_hooks"
                     /\ platforms # <<>>
                     /\ \A d \in Range(platforms) : pre[t][d] = "ok"
             /\ (op[t] = "create_backup" /\ pc[t] = "pre_hooks" /\ failed
                 /\ pc'[t] # "pre_hooks")
                  => /\ pc'[t] \in posts
                     /\ loc'[t].backup = <<>>
                     /\ loc'[t].exc # <<>>
                     /\ UNCHANGED <<files, backups>>
             /\ (op[t] = "create_backup" /\ pc[t] \in posts
                 /\ loc[t].backup = <<>>
                 /\ (pc'[t] # pc[t] \/ post'[t] # post[t]))
                  => /\ UNCHANGED <<files, backups>>
                     /\ pc'[t] \in posts \cup {"idle"}
                     /\ pc'[t] = "idle" => res'[t].st = "raise"
             /\ (InFlight(t) /\ pc[t] \notin posts /\ pc'[t] \in posts)
                  => \/ pc[t] = "pre_hooks" /\ failed
                     \/ pc[t] = "write_archive" /\ job[t].ran
             /\ (InFlight(t) /\ pc[t] \notin posts) => post[t] = NoHooks
      ]_vars

\* C19 witness: a create_backup whose second pre-backup hook raised has
\* ended raising that exception, the directory and the store untouched.
C19_Witness ==
    \E t \in Tasks :
        /\ op[t] = "create_backup" /\ pc[t] = "idle"
        /\ Len(platforms) = 2
        /\ res[t] = Raise(HookError("pre", platforms[2]))
        /\ files = InitialDirectory
        /\ backups = EmptyMap

\* Task t runs the scan another method triggered, the store not being
\* loaded when it was called.
LazyLoad(t) == pc[t] = "load_backups" /\ op[t] # "load_backups"

\* C20 (as claimed): with no call of load_backups, the directory is scanned
\* at most once: no two scans triggered by get_backups, get_backup,
\* remove_backup or restore_backup are executed.
C20_OneLazyScan ==
    \A t, u \in Tasks :
        (LazyLoad(t) /\ job[t].ran /\ LazyLoad(u) /\ job[u].ran) => t = u

\* C21 (as claimed): while a create_backup is in progress, what get_backups
\* and get_backup return does not contain the backup being created.
C21_ReadsSeePreCreateState ==
    \A t, u \in Tasks :
        (InFlight(t) /\ loc[t].backup # <<>>
         /\ op[u] \in {"get_backups", "get_backup"}
         /\ pc[u] = "idle" /\ res[u].st = "ret" /\ res[u].val # <<>>) =>
            IF op[u] = "get_backups"
            THEN loc[t].backup[1].slug \notin DOMAIN res[u].val[1]
            ELSE res[u].val[1].slug # loc[t].backup[1].slug

\* C22: the step in which a create_backup whose archive job succeeded goes
\* on inserts the new record under its slug when loaded_backups is true and
\* leaves the store alone when it is false; it changes no other record and
\* not loaded_backups, and no step of a create_backup starts a scan.
C22_InsertIffLoaded ==
    [][\A t \in Tasks :
         /\ (pc[t] = "write_archive" /\ pc'[t] # "write_archive"
             /\ job[t].ok)
              => LET b == loc[t].backup[1] IN
                 /\ loaded_backups => backups' = Put(backups, b.slug, b)
                 /\ ~loaded_backups => backups' = backups
                 /\ \A s \in DOMAIN backups \ {b.slug} :
                      s \in DOMAIN backups' /\ backups'[s] = backups[s]
                 /\ DOMAIN backups' \subseteq DOMAIN backups \cup {b.slug}
         /\ (op'[t] = "create_backup" /\ (pc'[t] # pc[t] \/ Calls(t)))
              => /\ pc'[t] # "load_backups"
                 /\ UNCHANGED loaded_backups
                 /\ pc[t] # "write_archive" => UNCHANGED backups
      ]_vars

\* C22 witness: a create_backup made with the store loaded has returned its
\* record, which is in the store beside the record that was there.
C22_Witness ==
    \E t \in Tasks :
        /\ op[t] = "create_backup" /\ pc[t] = "idle" /\ res[t].st = "ret"
        /\ loaded_backups
        /\ DOMAIN backups = {CoreSlug, res[t].val[1].slug}
        /\ backups[res[t].val[1].slug] = res[t].val[1]

\* A record of a full backup: its name starts "Full Backup".
FullRecords(bk) == {s \in DOMAIN bk : bk[s].name[1] = "Full Backup"}

C24_NameAgreesWithWriter ==
    \A t \in Tasks :
        pc[t] = "write_archive" =>
            LET b == loc[t].backup[1] IN
            /\ loc[t].writer = "incremental" <=> b.name = IncrementalName
            /\ loc[t].writer = "full" <=> b.name = FullName
            /\ (job[t].ran /\ job[t].ok /\ b.path \in DOMAIN files) =>
                  files[b.path].backup_type = loc[t].writer

\* C25 (as claimed): a create_backup that raises leaves the store as it was
\* when the call started: with no call of another task at any time, the
\* store does not hold the record the failed create formed.
C25_FailedCreateLeavesStore ==
    [][\A t \in Tasks :
         (InFlight(t) /\ pc'[t] = "idle" /\ res'[t].st = "raise"
          /\ loc[t].backup # <<>>
          /\ \A u \in Tasks \ {t} : calls[u] = 0) =>
            loc[t].backup[1].slug \notin DOMAIN backups'
      ]_vars

\* C26 (as claimed): a remove_backup never raises, whatever call overlaps
\* it at the unlink, and once the calls have ended and the file of the
\* removed slug is gone, the slug is not in the store.
C26_OverlappingRemoveIsSafe ==
    \A t \in Tasks :
        (op[t] = "remove_backup" /\ pc[t] = "idle") =>
            /\ res[t].st # "raise"
            /\ ((\A u \in Tasks : pc[u] = "idle")
                /\ TarPath(arg[t]) \notin DOMAIN files)
                  => arg[t] \notin DOMAIN backups

\* C27 (as claimed): once a create_backup has returned, loaded_backups is
\* true and no scan is in progress, the slug of the new backup is in the
\* store for as long as its archive is in the directory.
C27_CreatedBackupStaysIndexed ==
    \A t \in Tasks :
        (op[t] = "create_backup" /\ pc[t] = "idle" /\ res[t].st = "ret"
         /\ loaded_backups
         /\ (\A u \in Tasks : pc[u] # "load_backups")
         /\ res[t].val[1].path \in DOMAIN files) =>
            res[t].val[1].slug \in DOMAIN backups

\* C28: when every hook and every executor job ends, a create_backup that
\* was called eventually returns or raises, and backing_up, once true, is
\* eventually false again.
C28_CreateTerminates ==
    /\ \A t \in Tasks : InFlight(t) ~> (pc[t] = "idle")
    /\ backing_up ~> ~backing_up

\* C28 witness: a create_backup whose pre-backup hook raised has ended, and
\* backing_up is false.
C28_Witness ==
    \E t \in Tasks :
        /\ op[t] = "create_backup" /\ pc[t] = "idle"
        /\ res[t].st = "raise" /\ res[t].err[1].type = "HookError"
        /\ res[t].err[1].msg = "pre"
        /\ ~backing_up

\* C29: once a call of close() has returned the wrapped function is not
\* invoked again; once close() has begun a call of the debounced callable
\* puts nothing on the queue and starts no task; and at most one processing
\* task is not done.
C29_CloseStopsDebounce ==
    [][/\ close_returned => invocations' = invocations
       /\ _is_closing => (Len(_queue') <= Len(_queue)
                          /\ Len(tasks') = Len(tasks))
       /\ Cardinality({i \in DOMAIN tasks' : tasks'[i].at # "done"}) <= 1
      ]_vars

\* C30: the IIDs an accessory holds differ from key to key, an IID held is
\* never changed and is what a call for its key returns, and 1 is returned
\* for the key of the accessory-information service without a
\* characteristic only.
C30_IidsUniqueAndStable ==
    /\ [](\A a \in DOMAIN allocations :
            \A k1, k2 \in DOMAIN allocations[a] :
                k1 # k2 => allocations[a][k1] # allocations[a][k2])
    /\ [][\A a \in DOMAIN allocations : \A k \in DOMAIN allocations[a] :
            /\ a \in DOMAIN allocations' /\ k \in DOMAIN allocations'[a]
            /\ allocations'[a][k] = allocations[a][k]
            /\ (iid_call'.aid = a /\ iid_call'.key = k) =>
                   iid_call'.iid = allocations[a][k]
         ]_vars
    /\ [](iid_call.iid = 1 => iid_call.key = MainKey)

\* C30 witness: an accessory whose IIDs were loaded from the Store has been
\* given two more, and the last call, a repeated one, returned the first of
\* the two.
C30_Witness ==
    \E a \in DOMAIN allocations :
        /\ Len(allocated_iids[a]) >= 3
        /\ allocated_iids[a][1] # 1
        /\ iid_call.aid = a
        /\ iid_call.iid = allocated_iids[a][2]

====
